---- MODULE Spec2Model ----
(***************************************************************************)
(* Day 21 of ianlewis/advent2024: the keypad relay cost engine of          *)
(* src/day21/src/main.rs (Keypad, Keypad::get_min_paths, RobotChain,       *)
(* RobotChain::calc_cost, run).                                            *)
(*                                                                         *)
(* A char is a one-character string, a Vec<char> a sequence of them, a Pos *)
(* a pair <<x, y>>.  A HashMap/BTreeMap is a function on its key set.      *)
(***************************************************************************)
EXTENDS Integers, Sequences, FiniteSets, TLC

VARIABLES
    keypad,     \* a Keypad instance on which get_min_paths is called directly
    ab,         \* the (a, b) of the last get_min_paths call on it, <<>> before
    paths,      \* what that call returned
    search,     \* the locals of a get_min_paths call in progress on it, <<>> if none
    robots,     \* the RobotChain instances, by the name of the variable
    active,     \* the instance whose calc_cost was called last
    frames,     \* the activations of _calc_cost in progress, innermost last
    code,       \* the code of the last calc_cost call
    cost,       \* what the last calc_cost call that returned has returned
    calls,      \* the number of calc_cost calls made
    answers,    \* what the first calc_cost call of each instance and code returned
    codes,      \* run: the codes read_input returned
    line,       \* run: the index of the code the for loop is at
    pc,         \* run: the statement of the loop body that is next
    cost3,      \* run: the local cost3
    total3,     \* run: the local total3
    total26,    \* run: the local total26
    result,     \* run: what run returned, <<>> before
    arms,       \* relay: the button each arm is over, the numeric arm last
    typed,      \* relay: the buttons pressed on the numeric pad so far
    presses,    \* relay: the number of keys the human has pressed
    plan,       \* relay: the keys of a cheapest plan, as the engine prices it
    onplan      \* relay: whether the human has pressed the plan's keys so far

pathVars == <<keypad, ab, paths, search>>
costVars == <<robots, active, frames, code, cost, calls, answers>>
runVars  == <<codes, line, pc, cost3, total3, total26, result>>
relayVars == <<arms, typed, presses, plan, onplan>>
vars     == <<pathVars, costVars, runVars, relayVars>>

----------------------------------------------------------------------------
(* Generic helpers for maps and Vecs.                                      *)

\* An empty HashMap.
EmptyMap == <<>>

\* Nothing is inserted.
MapInsertDropped(m, k, v) == m

\* HashMap::insert: the entry for k is set (an existing one is replaced).
MapInsert(m, k, v) == (k :> v) @@ m

\* Vec::push.
Push(s, e) == Append(s, e)

\* The elements of a Vec, and the Vecs over a set up to a length.
Range(s) == {s[i] : i \in DOMAIN s}

SeqsUpTo(S, n) == UNION {[1..k -> S] : k \in 0..n}

----------------------------------------------------------------------------
(* usize.  The costs of a deep chain exceed the checker's 32-bit integers,  *)
(* so a usize value is held as its base-10^6 digits, least significant     *)
(* first, without leading zero digits (0 is the empty sequence): equal     *)
(* numbers are equal sequences.  The arithmetic is exact; Fits64 says      *)
(* whether a value is below 2^64.                                          *)

Limb == 1000000

\* The usize of a small natural number.
RECURSIVE U(_)
U(n) == IF n = 0 THEN <<>> ELSE <<n % Limb>> \o U(n \div Limb)

\* a + b (c is the carry).
RECURSIVE UAddC(_, _, _)
UAddC(a, b, c) ==
    IF a = <<>> /\ b = <<>> THEN (IF c = 0 THEN <<>> ELSE <<c>>)
    ELSE LET x == IF a = <<>> THEN 0 ELSE Head(a)
             y == IF b = <<>> THEN 0 ELSE Head(b)
             t == x + y + c
         IN  <<t % Limb>> \o UAddC(IF a = <<>> THEN <<>> ELSE Tail(a),
                                    IF b = <<>> THEN <<>> ELSE Tail(b),
                                    t \div Limb)

UAdd(a, b) == UAddC(a, b, 0)

\* a * k + c for a natural number k below 2000 (c is the carry).
RECURSIVE UMulC(_, _, _)
UMulC(a, k, c) ==
    IF a = <<>> THEN U(c)
    ELSE LET t == Head(a) * k + c
         IN  IF Tail(a) = <<>> /\ t = 0 THEN <<>>
             ELSE LET hi == UMulC(Tail(a), k, t \div Limb)
                  IN  IF hi = <<>> /\ t % Limb = 0 THEN <<>>
                      ELSE <<t % Limb>> \o hi

UMul(a, k) == UMulC(a, k, 0)

\* a < b: fewer digits, or the same number and a smaller most significant
\* digit that differs.
RECURSIVE ULessFrom(_, _, _)
ULessFrom(a, b, i) ==
    IF i = 0 THEN FALSE
    ELSE IF a[i] # b[i] THEN a[i] < b[i]
    ELSE ULessFrom(a, b, i - 1)

ULess(a, b) ==
    IF Len(a) # Len(b) THEN Len(a) < Len(b) ELSE ULessFrom(a, b, Len(a))

ULeq(a, b) == ~ULess(b, a)

\* 2^64 = 18 446744 073709 551616
Pow64 == <<551616, 73709, 446744, 18>>

Fits64(a) == ULess(a, Pow64)

\* 2^32 = 4294 967296
Pow32 == <<967296, 4294>>

\* usize on a 32-bit target.
UsizeLimit32 == Pow32

\* The number of values of usize: the program is built for a 64-bit
\* target, where usize has 64 bits.
UsizeLimit == Pow64

FitsUsize(a) == ULess(a, UsizeLimit)

----------------------------------------------------------------------------
(* Directions: const UP/DOWN/LEFT/RIGHT and DIRS.                          *)

\* '^' with the offset of 'v'.
UPDown == <<"^", <<0, -1>>>>

UP    == <<"^", <<0, 1>>>>
DOWN  == <<"v", <<0, -1>>>>
LEFT  == <<"<", <<-1, 0>>>>
RIGHT == <<">", <<1, 0>>>>
DIRS  == <<DOWN, RIGHT, UP, LEFT>>

----------------------------------------------------------------------------
(* Keypad.                                                                 *)

\* _pos_map is keyed by (y, x) for (x, y).
newTransposed(map) ==
    [ _map         |-> map,
      _pos_map     |-> [p \in {<<map[k][2], map[k][1]>> : k \in DOMAIN map} |->
                            CHOOSE k \in DOMAIN map : <<map[k][2], map[k][1]>> = p],
      _paths_cache |-> EmptyMap ]

\* Keypad::new: _pos_map is the map read backwards, _paths_cache is empty.
new(map) ==
    [ _map         |-> map,
      _pos_map     |-> [p \in {map[k] : k \in DOMAIN map} |->
                            CHOOSE k \in DOMAIN map : map[k] = p],
      _paths_cache |-> EmptyMap ]

NumpadMap ==
    ("0" :> <<1, 0>>) @@ ("A" :> <<2, 0>>) @@
    ("1" :> <<0, 1>>) @@ ("2" :> <<1, 1>>) @@ ("3" :> <<2, 1>>) @@
    ("4" :> <<0, 2>>) @@ ("5" :> <<1, 2>>) @@ ("6" :> <<2, 2>>) @@
    ("7" :> <<0, 3>>) @@ ("8" :> <<1, 3>>) @@ ("9" :> <<2, 3>>)

\* The directional layout with '<' entered on the row above.
DirpadMapShifted ==
    ("<" :> <<0, 1>>) @@ ("v" :> <<1, 0>>) @@ (">" :> <<2, 0>>) @@
    ("^" :> <<1, 1>>) @@ ("A" :> <<2, 1>>)

DirpadMap ==
    ("<" :> <<0, 0>>) @@ ("v" :> <<1, 0>>) @@ (">" :> <<2, 0>>) @@
    ("^" :> <<1, 1>>) @@ ("A" :> <<2, 1>>)

new_numpad == new(NumpadMap)

new_dirpad == new(DirpadMap)

\* The neighbour expansion of get_min_paths (the for loop over DIRS): one
\* stack entry per direction whose target cell holds a button, in DIRS
\* order.  (x + dx) as usize wraps a negative coordinate to a huge value,
\* which is no key of _pos_map; here the negative coordinate is no key.
RECURSIVE Expand(_, _, _, _, _)
Expand(kp, pos, visited, path, i) ==
    IF i > Len(DIRS) THEN <<>>
    ELSE LET dir_char == DIRS[i][1]
             next     == <<pos[1] + DIRS[i][2][1], pos[2] + DIRS[i][2][2]>>
             rest     == Expand(kp, pos, visited, path, i + 1)
         IN  IF next \in DOMAIN kp._pos_map
             THEN <<[button  |-> kp._pos_map[next],
                     visited |-> visited,
                     path    |-> Push(path, dir_char)]>> \o rest
             ELSE rest

\* The while loop of get_min_paths, for the stack entries `stack` and
\* everything they push: the paths recorded, in the order recorded.  The
\* stack is popped from the back, and what an entry pushes lies above the
\* entries below it, so an entry and all its descendants are handled
\* before the entry below: the loop is the depth-first recursion Visit.
\* Visit is one iteration: record a path that reached b, skip a button
\* already visited on this path, else push the neighbours.  A popped
\* button that is not on the keypad is dropped.
RECURSIVE Search(_, _, _), Visit(_, _, _)
\* One iteration in which the button the search starts on is not taken
\* for b: b is checked for only once a move was made.
VisitMoveFirst(kp, b, top) ==
    IF top.button \notin DOMAIN kp._map THEN <<>>
    ELSE IF top.button \in top.visited THEN <<>>
    ELSE IF top.button = b /\ top.visited # {} THEN <<Push(top.path, "A")>>
    ELSE Search(kp, b, Expand(kp, kp._map[top.button],
                              top.visited \cup {top.button}, top.path, 1))

Visit(kp, b, top) ==
    IF top.button \notin DOMAIN kp._map THEN <<>>
    ELSE IF top.button = b THEN <<Push(top.path, "A")>>
    ELSE IF top.button \in top.visited THEN <<>>
    ELSE Search(kp, b, Expand(kp, kp._map[top.button],
                              top.visited \cup {top.button}, top.path, 1))

Search(kp, b, stack) ==
    IF stack = <<>> THEN <<>>
    ELSE Visit(kp, b, stack[Len(stack)])
             \o Search(kp, b, SubSeq(stack, 1, Len(stack) - 1))

\* The greatest length instead of the least.
MinLenMax(found) ==
    IF found = <<>> THEN 0
    ELSE CHOOSE n \in {Len(found[i]) : i \in DOMAIN found} :
             \A i \in DOMAIN found : n >= Len(found[i])

\* The fallback 0 whatever was found.
MinLenZero(found) == 0

\* paths.iter().map(|p| p.len()).min().unwrap_or(0)
MinLen(found) ==
    IF found = <<>> THEN 0
    ELSE CHOOSE n \in {Len(found[i]) : i \in DOMAIN found} :
             \A i \in DOMAIN found : n <= Len(found[i])

\* No path is filtered out.
FilterNone(found, min_len) == found

\* Only paths shorter than the minimum are kept (< for <=).
RECURSIVE FilterStrict(_, _)
FilterStrict(found, min_len) ==
    IF found = <<>> THEN <<>>
    ELSE LET rest == FilterStrict(Tail(found), min_len)
         IN  IF Len(Head(found)) < min_len THEN <<Head(found)>> \o rest
             ELSE rest

\* Only the first path of minimum length is kept.
RECURSIVE FilterFirst(_, _)
FilterFirst(found, min_len) ==
    IF found = <<>> THEN <<>>
    ELSE IF Len(Head(found)) <= min_len THEN <<Head(found)>>
    ELSE FilterFirst(Tail(found), min_len)

\* paths.into_iter().filter(|p| p.len() <= min_len).collect(): order kept.
RECURSIVE Filter(_, _)
Filter(found, min_len) ==
    IF found = <<>> THEN <<>>
    ELSE LET rest == Filter(Tail(found), min_len)
         IN  IF Len(Head(found)) <= min_len THEN <<Head(found)>> \o rest
             ELSE rest

\* Keypad::get_min_paths(&mut self, a, b): the returned paths and the keypad
\* after the call (its _paths_cache filled on a miss).
get_min_paths(kp, a, b) ==
    IF <<a, b>> \in DOMAIN kp._paths_cache
    THEN [paths |-> kp._paths_cache[<<a, b>>], keypad |-> kp]
    ELSE LET found    == Search(kp, b,
                                <<[button |-> a, visited |-> {}, path |-> <<>>]>>)
             filtered == Filter(found, MinLen(found))
         IN  [paths  |-> filtered,
              keypad |-> [kp EXCEPT !._paths_cache =
                                        MapInsert(@, <<a, b>>, filtered)]]

----------------------------------------------------------------------------
(* RobotChain.                                                             *)

\* The chain counted one longer.
RobotChainOneMore(kp, num_dir_keypads) ==
    [ _keypad     |-> kp,
      _chain_len  |-> num_dir_keypads + 1,
      _dir_keypad |-> new_dirpad,
      _cost_cache |-> EmptyMap ]

\* RobotChain::new(keypad, num_dir_keypads).
RobotChain(kp, num_dir_keypads) ==
    [ _keypad     |-> kp,
      _chain_len  |-> num_dir_keypads,
      _dir_keypad |-> new_dirpad,
      _cost_cache |-> EmptyMap ]

\* The key with the length of the code for the code.
CacheKeyByLen(c, chain_len, kp) == <<Len(c), chain_len, kp._map>>

\* The key without the chain length.
CacheKeyNoDepth(c, chain_len, kp) == <<c, 1, kp._map>>

\* The key of _cost_cache: (String::from_iter(code), chain_len, keypad._map).
\* The String holds exactly the chars of the code, in order.
CacheKey(c, chain_len, kp) == <<c, chain_len, kp._map>>

\* The greatest cost instead of the least.
MinCostMax(costs) ==
    IF costs = <<>> THEN U(0)
    ELSE costs[CHOOSE i \in DOMAIN costs :
                   \A j \in DOMAIN costs : ULeq(costs[j], costs[i])]

\* The cost of the first path instead of the least.
MinCostFirst(costs) == IF costs = <<>> THEN U(0) ELSE costs[1]

\* costs.iter().min().unwrap_or(&0)
MinCost(costs) ==
    IF costs = <<>> THEN U(0)
    ELSE costs[CHOOSE i \in DOMAIN costs :
                   \A j \in DOMAIN costs : ULeq(costs[i], costs[j])]

\* _calc_cost recurses as deep as the chain is long, so a call is modelled
\* by its activations: a frame holds the arguments and locals of one
\* activation of _calc_cost.  keypad is the Keypad the activation was
\* handed by value; the lookups of its pair loop fill the _paths_cache of
\* this copy, which is dropped when the activation returns.
\*   i, total_cost : the pair loop's position in the code and its sum
\*   paths, j      : what get_min_paths returned for pair i and the path
\*                   loop's position in it
\*   costs         : the costs pushed for pair i
\*   at            : "pair" at the head of the pair loop, "path" at the
\*                   head of the path loop
Frame(c, chain_len, kp) ==
    [ code |-> c, chain_len |-> chain_len, keypad |-> kp,
      i |-> 1, total_cost |-> U(0),
      paths |-> <<>>, j |-> 1, costs |-> <<>>, at |-> "pair" ]

\* With chain_len == 0, 0 instead of the length of the code.
EntryZero(self, c, chain_len, kp) ==
    LET key == CacheKey(c, chain_len, kp)
    IN  IF key \in DOMAIN self._cost_cache
          THEN [returns |-> TRUE, cost |-> self._cost_cache[key]]
        ELSE IF chain_len = 0
          THEN [returns |-> TRUE, cost |-> U(0)]
        ELSE [returns |-> FALSE, cost |-> U(0)]

\* The cost cache is not consulted.
EntryNoCache(self, c, chain_len, kp) ==
    IF chain_len = 0
      THEN [returns |-> TRUE, cost |-> U(Len(c))]
    ELSE [returns |-> FALSE, cost |-> U(0)]

\* The head of _calc_cost: a cached cost is returned, else with
\* chain_len == 0 the length of the code; otherwise the loops are entered.
Entry(self, c, chain_len, kp) ==
    LET key == CacheKey(c, chain_len, kp)
    IN  IF key \in DOMAIN self._cost_cache
          THEN [returns |-> TRUE, cost |-> self._cost_cache[key]]
        ELSE IF chain_len = 0
          THEN [returns |-> TRUE, cost |-> U(Len(c))]
        ELSE [returns |-> FALSE, cost |-> U(0)]

\* The first pair starts from the code's first button instead of 'A'.
PairAtFromFirst(c, i) == <<IF i = 1 THEN c[1] ELSE c[i - 1], c[i]>>

\* The pair (a, b) the pair loop is at: [&'A'].into_iter().chain(code).zip(code).
PairAt(c, i) == <<IF i = 1 THEN "A" ELSE c[i - 1], c[i]>>

Top(s) == s[Len(s)]

Pop(s) == SubSeq(s, 1, Len(s) - 1)

\* The caller takes a returned path_cost: costs.push(path_cost), next path.
TakeCost(frame, v) == [frame EXCEPT !.costs = Push(@, v), !.j = @ + 1]

\* calc_cost returns v to its caller, for instance name and code c.
Answer(name, c, v) ==
    /\ cost' = v
    /\ answers' = IF <<name, c>> \in DOMAIN answers THEN answers
                  ELSE (<<name, c>> :> v) @@ answers

\* An activation began for instance name with code c, chain length n and a
\* clone of kp, below the frames s: it returns at once (the caller, if any,
\* takes the cost) or its frame is pushed.
Invoke(name, s, c, n, kp) ==
    LET e == Entry(robots[name], c, n, kp)
    IN  IF ~e.returns
          THEN frames' = Push(s, Frame(c, n, kp)) /\ UNCHANGED <<cost, answers>>
        ELSE IF s = <<>>
          THEN frames' = s /\ Answer(name, c, e.cost)
        ELSE /\ frames' = Push(Pop(s), TakeCost(Top(s), e.cost))
             /\ UNCHANGED <<cost, answers>>

\* RobotChain::calc_cost(&mut self, code) is called on instance name.
Begin(name, c) ==
    /\ active' = name
    /\ code' = c
    /\ calls' = calls + 1
    /\ robots' = robots
    /\ Invoke(name, <<>>, c, robots[name]._chain_len, robots[name]._keypad)

Running == frames # <<>>

\* The lookup is made on the instance's own Keypad as well, which caches
\* the paths.
LookupPathsOnSelf ==
    /\ Running /\ Top(frames).at = "pair" /\ Top(frames).i <= Len(Top(frames).code)
    /\ LET f  == Top(frames)
           ab_ == PairAt(f.code, f.i)
           g  == get_min_paths(f.keypad, ab_[1], ab_[2])
       IN  /\ frames' = Push(Pop(frames),
                            [f EXCEPT !.keypad = g.keypad, !.paths = g.paths,
                                      !.j = 1, !.costs = <<>>, !.at = "path"])
           /\ robots' = IF Len(frames) = 1
                        THEN [robots EXCEPT ![active]._keypad._paths_cache =
                                                MapInsert(@, ab_, g.paths)]
                        ELSE [robots EXCEPT ![active]._dir_keypad._paths_cache =
                                                MapInsert(@, ab_, g.paths)]
    /\ UNCHANGED <<active, code, cost, calls, answers, pathVars, runVars, relayVars>>

\* The head of the pair loop with a pair left: keypad.get_min_paths(*a, *b)
\* on the activation's own Keypad, and an empty costs.
LookupPaths ==
    /\ Running /\ Top(frames).at = "pair" /\ Top(frames).i <= Len(Top(frames).code)
    /\ LET f  == Top(frames)
           ab_ == PairAt(f.code, f.i)
           g  == get_min_paths(f.keypad, ab_[1], ab_[2])
       IN  frames' = Push(Pop(frames),
                         [f EXCEPT !.keypad = g.keypad, !.paths = g.paths,
                                   !.j = 1, !.costs = <<>>, !.at = "path"])
    /\ UNCHANGED <<robots, active, code, cost, calls, answers, pathVars, runVars, relayVars>>

\* The recursive call is made with chain_len for chain_len - 1.
PricePathSameDepth ==
    /\ Running /\ Top(frames).at = "path" /\ Top(frames).j <= Len(Top(frames).paths)
    /\ LET f == Top(frames)
       IN  Invoke(active, frames, f.paths[f.j], f.chain_len,
                  robots[active]._dir_keypad)
    /\ UNCHANGED <<robots, active, code, calls, pathVars, runVars, relayVars>>

\* The recursive call is made with the activation's own Keypad instead of
\* self._dir_keypad.
PricePathOwnKeypad ==
    /\ Running /\ Top(frames).at = "path" /\ Top(frames).j <= Len(Top(frames).paths)
    /\ LET f == Top(frames)
       IN  Invoke(active, frames, f.paths[f.j], f.chain_len - 1, f.keypad)
    /\ UNCHANGED <<robots, active, code, calls, pathVars, runVars, relayVars>>

\* The head of the path loop with a path left:
\* self._calc_cost(&path, chain_len - 1, self._dir_keypad.clone()).
PricePath ==
    /\ Running /\ Top(frames).at = "path" /\ Top(frames).j <= Len(Top(frames).paths)
    /\ LET f == Top(frames)
       IN  Invoke(active, frames, f.paths[f.j], f.chain_len - 1,
                  robots[active]._dir_keypad)
    /\ UNCHANGED <<robots, active, code, calls, pathVars, runVars, relayVars>>

\* The minimum is assigned to total_cost instead of added (= for +=).
AddMinAssign ==
    /\ Running /\ Top(frames).at = "path" /\ Top(frames).j > Len(Top(frames).paths)
    /\ LET f == Top(frames)
       IN  frames' = Push(Pop(frames),
                         [f EXCEPT !.total_cost = MinCost(f.costs),
                                   !.i = @ + 1, !.at = "pair"])
    /\ UNCHANGED <<robots, active, code, cost, calls, answers, pathVars, runVars, relayVars>>

\* The path loop is over: total_cost += costs.iter().min().unwrap_or(&0),
\* and on to the next pair.
AddMin ==
    /\ Running /\ Top(frames).at = "path" /\ Top(frames).j > Len(Top(frames).paths)
    /\ LET f == Top(frames)
       IN  frames' = Push(Pop(frames),
                         [f EXCEPT !.total_cost = UAdd(@, MinCost(f.costs)),
                                   !.i = @ + 1, !.at = "pair"])
    /\ UNCHANGED <<robots, active, code, cost, calls, answers, pathVars, runVars, relayVars>>

\* The total is inserted into the cost cache of every instance.
StoreInEvery ==
    /\ Running /\ Top(frames).at = "pair" /\ Top(frames).i > Len(Top(frames).code)
    /\ LET f == Top(frames)
       IN  /\ robots' = [name \in DOMAIN robots |->
                             [robots[name] EXCEPT !._cost_cache =
                                 MapInsert(@, CacheKey(f.code, f.chain_len, f.keypad),
                                           f.total_cost)]]
           /\ IF Len(frames) = 1
                THEN frames' = <<>> /\ Answer(active, code, f.total_cost)
                ELSE /\ frames' = Push(Pop(Pop(frames)),
                                      TakeCost(frames[Len(frames) - 1], f.total_cost))
                     /\ UNCHANGED <<cost, answers>>
    /\ UNCHANGED <<active, code, calls, pathVars, runVars, relayVars>>

\* The pair loop is over: the total is inserted into _cost_cache under the
\* activation's key and returned, to the calling activation or to the
\* caller of calc_cost.
Store ==
    /\ Running /\ Top(frames).at = "pair" /\ Top(frames).i > Len(Top(frames).code)
    /\ LET f == Top(frames)
       IN  /\ robots' = [robots EXCEPT ![active]._cost_cache =
                             MapInsert(@, CacheKey(f.code, f.chain_len, f.keypad),
                                       f.total_cost)]
           /\ IF Len(frames) = 1
                THEN frames' = <<>> /\ Answer(active, code, f.total_cost)
                ELSE /\ frames' = Push(Pop(Pop(frames)),
                                      TakeCost(frames[Len(frames) - 1], f.total_cost))
                     /\ UNCHANGED <<cost, answers>>
    /\ UNCHANGED <<active, code, calls, pathVars, runVars, relayVars>>

----------------------------------------------------------------------------
(* Path lookups on one Keypad instance, as the unit tests make them.       *)

\* Bound on the number of lookups made on one Keypad instance.
MaxLookups == 1

Buttons(kp) == DOMAIN kp._map

\* No RobotChain exists.
NoCost ==
    /\ robots = EmptyMap
    /\ active = ""
    /\ frames = <<>>
    /\ code = <<>>
    /\ cost = U(0)
    /\ calls = 0
    /\ answers = EmptyMap

\* run is not called.
NoRun ==
    /\ codes = <<>>
    /\ line = 1
    /\ pc = ""
    /\ cost3 = U(0)
    /\ total3 = U(0)
    /\ total26 = U(0)
    /\ result = <<>>

\* No relay is run.
NoRelay ==
    /\ arms = <<>>
    /\ typed = <<>>
    /\ presses = 0
    /\ plan = <<>>
    /\ onplan = FALSE

\* No Keypad of its own exists.
NoPaths ==
    /\ keypad = new_dirpad
    /\ ab = <<>>
    /\ paths = <<>>
    /\ search = <<>>

InitPaths ==
    /\ keypad \in {new_numpad, new_dirpad}
    /\ ab = <<>>
    /\ paths = <<>>
    /\ search = <<>>
    /\ NoCost
    /\ NoRun
    /\ NoRelay

\* keypad.get_min_paths(a, b): a pair already looked up is answered from
\* the cache; the number of pairs searched is bounded.
GetMinPathsCall ==
    /\ \E a \in Buttons(keypad), b \in Buttons(keypad) :
          /\ \/ <<a, b>> \in DOMAIN keypad._paths_cache
             \/ Cardinality(DOMAIN keypad._paths_cache) < MaxLookups
          /\ LET r == get_min_paths(keypad, a, b)
             IN  /\ keypad' = r.keypad
                 /\ ab' = <<a, b>>
                 /\ paths' = r.paths
                 /\ search' = search
    /\ UNCHANGED <<costVars, runVars, relayVars>>

NextPaths == GetMinPathsCall

SpecPaths == InitPaths /\ [][NextPaths]_vars

----------------------------------------------------------------------------
(* What a path is on a layout, told from the layout alone: the cells of    *)
(* the pad, the gap, and the walks over the cells.                         *)

IsNumpad(kp) == "0" \in DOMAIN kp._map

\* The gap of a layout: (0,0) on the numeric pad, (0,1) on the directional.
Gap(kp) == IF IsNumpad(kp) THEN <<0, 0>> ELSE <<0, 1>>

\* The grid of a layout: 3x4 numeric, 3x2 directional.
Grid(kp) == IF IsNumpad(kp) THEN (0..2) \X (0..3) ELSE (0..2) \X (0..1)

Cells(kp) == Grid(kp) \ {Gap(kp)}

Moves == {"^", "v", "<", ">"}

\* The cell a move leads to.
Step(pos, m) ==
    CASE m = "^" -> <<pos[1], pos[2] + 1>>
      [] m = "v" -> <<pos[1], pos[2] - 1>>
      [] m = "<" -> <<pos[1] - 1, pos[2]>>
      [] m = ">" -> <<pos[1] + 1, pos[2]>>

\* The cells a sequence of moves passes, after each prefix, from pos.
RECURSIVE Trace(_, _)
Trace(pos, w) ==
    IF w = <<>> THEN <<>>
    ELSE <<Step(pos, Head(w))>> \o Trace(Step(pos, Head(w)), Tail(w))

Abs(n) == IF n < 0 THEN -n ELSE n

Manhattan(p, q) == Abs(p[1] - q[1]) + Abs(p[2] - q[2])

\* The shortest walks over the cells from one cell to another: the walks
\* of each length in turn (each with the cell it ends on), until some end
\* on the target; none if the walks have grown longer than there are
\* cells.
RECURSIVE ShortestFrom(_, _, _)
ShortestFrom(kp, walks, target) ==
    LET hits == {r \in walks : r.pos = target}
    IN  IF hits # {} \/ walks = {}
           \/ \E r \in walks : Len(r.w) > Cardinality(Cells(kp))
        THEN {r.w : r \in hits}
        ELSE ShortestFrom(kp,
                 {n \in {[w |-> Append(r.w, m), pos |-> Step(r.pos, m)] :
                             r \in walks, m \in Moves} : n.pos \in Cells(kp)},
                 target)

ShortestWalks(kp, from, to) == ShortestFrom(kp, {[w |-> <<>>, pos |-> from]}, to)

\* The shortest walks between two buttons, each with the 'A' that presses
\* the button reached.
ShortestWalksA(kp, a, b) ==
    {Append(w, "A") : w \in ShortestWalks(kp, kp._map[a], kp._map[b])}

\* A path as get_min_paths returns it: the moves, then one 'A'.
MovesOf(p) == SubSeq(p, 1, Len(p) - 1)

Looked == ab # <<>>

PosA == keypad._map[ab[1]]
PosB == keypad._map[ab[2]]

\* C5: after get_min_paths(a, b) on either layout, the paths returned are
\* exactly the shortest walks over the cells from a's cell to b's cell, each
\* followed by one 'A', and none is returned twice; directional 'A' -> '<'
\* gives <v<A and v<<A, numeric '1' -> '6' gives >>^A, >^>A and ^>>A.
C5_AllShortestPathsOnce ==
    Looked =>
        /\ Range(paths) = ShortestWalksA(keypad, ab[1], ab[2])
        /\ Cardinality(Range(paths)) = Len(paths)
        /\ (~IsNumpad(keypad) /\ ab = <<"A", "<">> =>
               Range(paths) = {<<"<", "v", "<", "A">>, <<"v", "<", "<", "A">>})
        /\ (IsNumpad(keypad) /\ ab = <<"1", "6">> =>
               Range(paths) = {<<">", ">", "^", "A">>, <<">", "^", ">", "A">>,
                               <<"^", ">", ">", "A">>})

C5_Witness ==
    /\ IsNumpad(keypad) /\ ab = <<"1", "6">> /\ Len(paths) = 3
    /\ <<"1", "6">> \in DOMAIN keypad._paths_cache

\* Whether a straight route from p to q (along the row then the column, or
\* along the column then the row) passes the gap.
RouteCells(p, q, rowFirst) ==
    LET corner == IF rowFirst THEN <<q[1], p[2]>> ELSE <<p[1], q[2]>>
    IN  {c \in Grid(keypad) \cup {Gap(keypad)} :
            \/ Manhattan(p, c) + Manhattan(c, corner) = Manhattan(p, corner)
            \/ Manhattan(corner, c) + Manhattan(c, q) = Manhattan(corner, q)}

CrossesGap(p, q) ==
    Gap(keypad) \in RouteCells(p, q, TRUE) \cup RouteCells(p, q, FALSE)

\* C6 as stated: every path returned has length Manhattan(a, b), plus 2
\* exactly when the straight route crosses the gap.
C6_LengthAsStated ==
    Looked =>
        \A p \in Range(paths) :
            Len(p) = Manhattan(PosA, PosB)
                        + (IF CrossesGap(PosA, PosB) THEN 2 ELSE 0)

\* C6, amended: every path returned has the same length, the Manhattan
\* distance of a and b plus 1 (the 'A'), whether or not a straight route
\* crosses the gap.
C6_LengthManhattanPlusOne ==
    Looked =>
        /\ paths # <<>>
        /\ \A p \in Range(paths) : Len(p) = Manhattan(PosA, PosB) + 1

C6_Witness ==
    /\ IsNumpad(keypad) /\ ab = <<"A", "1">>
    /\ CrossesGap(PosA, PosB)
    /\ Len(paths) = 2 /\ \A p \in Range(paths) : Len(p) = 4

\* C7: after get_min_paths(a, b), walking the moves of any path returned
\* from a's cell stays on the grid and off the gap after every prefix.
C7_NeverOnGap ==
    Looked =>
        \A p \in Range(paths) :
            \A c \in Range(Trace(PosA, MovesOf(p))) :
                c \in Grid(keypad) /\ c # Gap(keypad)

C7_Witness ==
    /\ ~IsNumpad(keypad) /\ ab = <<"<", "A">>
    /\ paths = << <<">", "^", ">", "A">>, <<">", ">", "^", "A">> >>

----------------------------------------------------------------------------
(* calc_cost calls on one RobotChain instance, as the unit tests make them. *)

\* Bounds: the longest chain, and the number of calls on one instance.
MaxChain == 3
MaxCalls == 2

\* The codes priced on the numeric pad: the codes of the unit tests, and
\* codes whose pairs have one path, tied paths and a gap on a straight route.
NumCodes ==
    { <<"A">>, <<"0">>, <<"7", "A">>, <<"1", "2">>, <<"5", "9", "3">>,
      <<"0", "2", "9", "A">> }

\* The sequences priced on the directional pad.
DirCodes ==
    { <<"A">>, <<"<", "A">>, <<"v", "<", "<", "A">> }

CodesOn(kp) == IF kp._map = NumpadMap THEN NumCodes ELSE DirCodes

InitCost ==
    /\ \E kp \in {new_numpad, new_dirpad}, n \in 0..MaxChain :
          robots = ("chain" :> RobotChain(kp, n))
    /\ active = "chain"
    /\ frames = <<>>
    /\ code = <<>>
    /\ cost = U(0)
    /\ calls = 0
    /\ answers = EmptyMap
    /\ NoPaths
    /\ NoRun
    /\ NoRelay

\* chain.calc_cost(&code), once the call before it has returned.
CalcCostCall ==
    /\ ~Running
    /\ calls < MaxCalls
    /\ \E c \in CodesOn(robots["chain"]._keypad) : Begin("chain", c)
    /\ UNCHANGED <<pathVars, runVars, relayVars>>

NextCost ==
    \/ CalcCostCall
    \/ LookupPaths
    \/ PricePath
    \/ AddMin
    \/ Store

SpecCost == InitCost /\ [][NextCost]_vars

----------------------------------------------------------------------------
(* The cost by its recursive definition, computed without any cache.       *)

\* The least of a set of costs.
UMinOf(S) == CHOOSE x \in S : \A y \in S : ULeq(x, y)

\* RefCost(c, d, kp): the length of c at depth 0; else the sum over the
\* pairs (prev, cur) of c, the first prev being 'A', of the least cost at
\* depth d - 1 on the directional pad of all paths of the pair on kp.
RECURSIVE RefCost(_, _, _), RefSum(_, _, _, _)
RefSum(c, d, kp, i) ==
    IF i > Len(c) THEN U(0)
    ELSE UAdd(UMinOf({RefCost(p, d - 1, new_dirpad) :
                        p \in Range(get_min_paths(kp, IF i = 1 THEN "A" ELSE c[i - 1],
                                                  c[i]).paths)}),
              RefSum(c, d, kp, i + 1))

RefCost(c, d, kp) == IF d = 0 THEN U(Len(c)) ELSE RefSum(c, d, kp, 1)

\* The instance of the unit tests, and whether a call on it has returned.
Chain == robots["chain"]

Returned == ~Running /\ calls >= 1

Code029A == <<"0", "2", "9", "A">>

\* C2: a new chain on the numeric pad prices 029A at 4, 12, 28 and 68 with
\* a chain length of 0, 1, 2 and 3.
C2_Cost029A ==
    (Returned /\ calls = 1 /\ IsNumpad(Chain._keypad) /\ code = Code029A) =>
        /\ Chain._chain_len = 0 => cost = U(4)
        /\ Chain._chain_len = 1 => cost = U(12)
        /\ Chain._chain_len = 2 => cost = U(28)
        /\ Chain._chain_len = 3 => cost = U(68)

C2_Witness ==
    /\ Returned /\ calls = 1 /\ IsNumpad(Chain._keypad) /\ code = Code029A
    /\ Chain._chain_len = 3 /\ cost = U(68)

\* C8: with a chain length of 0 the cost is the length of the sequence, on
\* either pad and whatever the cache holds: for a call of calc_cost that
\* returned, and for every path an activation with chain length 1 has
\* priced (at chain length 0) so far.
C8_DepthZeroIsLength ==
    /\ (Returned /\ Chain._chain_len = 0) => cost = U(Len(code))
    /\ \A k \in DOMAIN frames :
          frames[k].chain_len = 1 =>
              \A m \in DOMAIN frames[k].costs :
                  frames[k].costs[m] = U(Len(frames[k].paths[m]))

C8_Witness ==
    /\ Returned /\ calls = 2 /\ Chain._chain_len = 0 /\ ~IsNumpad(Chain._keypad)
    /\ code = <<"<", "A">> /\ cost = U(2)

\* C9: with a chain length d >= 1, the cost a call returns is the sum over
\* the pairs of the code, from 'A', of the least cost at depth d - 1 on the
\* directional pad over all paths of the pair; and when an activation
\* takes the minimum for a pair, it has priced every path of the pair.
C9_SumOfMinOverAllPaths ==
    /\ (Returned /\ Chain._chain_len >= 1) =>
           cost = RefSum(code, Chain._chain_len, Chain._keypad, 1)
    /\ \A k \in DOMAIN frames :
          frames[k].at = "path" =>
              /\ Len(frames[k].costs) = frames[k].j - 1
              /\ frames[k].j <= Len(frames[k].paths) + 1

C9_Witness ==
    /\ Returned /\ Chain._chain_len = 3 /\ IsNumpad(Chain._keypad)
    /\ code = <<"7", "A">> /\ calls = 2

\* C10: a step of a call leaves every entry of the cost cache as it is,
\* any entry it adds holds the cost the recursive definition gives for the
\* entry's sequence, depth and layout, and a call that returns (with a
\* cache filled by the calls before it or not) returns the cost the
\* recursive definition gives.
KeypadOfMap(map) == IF "0" \in DOMAIN map THEN new_numpad ELSE new_dirpad

C10_CacheHoldsRecursiveCost ==
    [][ LET old == robots["chain"]._cost_cache
            now == robots'["chain"]._cost_cache
        IN  /\ \A key \in DOMAIN old : key \in DOMAIN now /\ now[key] = old[key]
            /\ \A key \in DOMAIN now \ DOMAIN old :
                   /\ key[3] \in {NumpadMap, DirpadMap}
                   /\ now[key] = RefCost(key[1], key[2], KeypadOfMap(key[3]))
            /\ (frames' = <<>> /\ calls' >= 1) =>
                   cost' = RefCost(code', robots'["chain"]._chain_len,
                                   robots'["chain"]._keypad)
      ]_vars

C10_Witness ==
    /\ Returned /\ calls = 2 /\ Chain._chain_len = 3 /\ IsNumpad(Chain._keypad)
    /\ code = Code029A /\ cost = U(68)
    /\ Cardinality(DOMAIN Chain._cost_cache) > 20

\* Whether map `now` holds every entry of map `old`, unchanged.
Keeps(old, now) ==
    \A key \in DOMAIN old : key \in DOMAIN now /\ now[key] = old[key]

\* The key under which an activation will insert its total.
KeyOf(f) == CacheKey(f.code, f.chain_len, f.keypad)

\* C11: cache entries are write-once.  Over every step of every call, each
\* instance's cost cache keeps every entry it holds, unchanged, across
\* calls with different codes; the path cache of every Keypad in use (the
\* instance's two and the one of each activation in progress) keeps every
\* entry it holds, unchanged; and the key under which an activation in
\* progress will insert its total is not in the cost cache, so that no
\* insert is made for a key already present.
C11_CachesWriteOnce ==
    [][ /\ \A name \in DOMAIN robots :
              /\ Keeps(robots[name]._cost_cache, robots'[name]._cost_cache)
              /\ Keeps(robots[name]._keypad._paths_cache,
                       robots'[name]._keypad._paths_cache)
              /\ Keeps(robots[name]._dir_keypad._paths_cache,
                       robots'[name]._dir_keypad._paths_cache)
        /\ \A k \in DOMAIN frames \cap DOMAIN frames' :
              Keeps(frames[k].keypad._paths_cache, frames'[k].keypad._paths_cache)
        /\ \A k \in DOMAIN frames' :
              KeyOf(frames'[k]) \notin DOMAIN robots'[active']._cost_cache
      ]_vars

\* A second call is in progress with the cache the first one filled, and
\* its innermost activation has just looked up a pair it looked up before.
C11_Witness ==
    /\ calls = 2 /\ Running
    /\ Cardinality(DOMAIN Chain._cost_cache) > 5
    /\ LET f == Top(frames)
       IN  /\ f.at = "path"
           /\ \E i0 \in 1..(f.i - 1) : PairAt(f.code, i0) = PairAt(f.code, f.i)
           /\ Cardinality(DOMAIN f.keypad._paths_cache) < f.i

\* C12: a calc_cost call with a code the instance has priced before (in
\* the call just before or an earlier one) returns at once, without any
\* activation left in progress (so without a path search or a recursive
\* _calc_cost), and returns what the first call with that code returned;
\* the cost cache is as it was.
C12_SecondCallFromCache ==
    [][ (calls' = calls + 1 /\ <<active', code'>> \in DOMAIN answers) =>
            /\ frames' = <<>>
            /\ cost' = answers[<<active', code'>>]
            /\ robots' = robots
      ]_vars

\* The second call with 029A on a chain of length 3 has returned.
C12_Witness ==
    /\ Returned /\ calls = 2 /\ Chain._chain_len = 3 /\ IsNumpad(Chain._keypad)
    /\ code = Code029A /\ cost = U(68)
    /\ DOMAIN answers = {<<"chain", Code029A>>}

\* The Keypad of the instance that activation k was handed a clone of:
\* _keypad for the activation calc_cost starts, _dir_keypad for the others.
OwnKeypad(k) ==
    IF k = 1 THEN robots[active]._keypad ELSE robots[active]._dir_keypad

\* C18: once an activation has looked up the paths of a pair, the Keypad
\* of the instance (the one the activation's Keypad was made from) holds
\* the paths of the pair in its _paths_cache.
C18_InstanceHoldsPathCache ==
    \A k \in DOMAIN frames :
        frames[k].at = "path" =>
            PairAt(frames[k].code, frames[k].i) \in DOMAIN OwnKeypad(k)._paths_cache

----------------------------------------------------------------------------
(* Two RobotChain instances over the same layout, one with a chain one    *)
(* longer than the other, called in any order (as run holds robot3 and    *)
(* robot26, and as each unit test makes instances of its own).            *)

\* The codes the two instances price.
PairCodes(kp) ==
    IF kp._map = NumpadMap
    THEN { <<"0">>, <<"7", "A">>, <<"0", "2", "9", "A">> }
    ELSE { <<"<", "A">>, <<"v", "<", "<", "A">> }

InitPair ==
    /\ \E kp \in {new_numpad, new_dirpad}, n \in 0..(MaxChain - 1) :
          robots = ("shallow" :> RobotChain(kp, n))
                     @@ ("deep" :> RobotChain(kp, n + 1))
    /\ active = "shallow"
    /\ frames = <<>>
    /\ code = <<>>
    /\ cost = U(0)
    /\ calls = 0
    /\ answers = EmptyMap
    /\ NoPaths
    /\ NoRun
    /\ NoRelay

\* calc_cost(&code) on either instance, once the call before it has
\* returned.
PairCalcCost ==
    /\ ~Running
    /\ calls < MaxCalls
    /\ \E name \in DOMAIN robots :
          \E c \in PairCodes(robots[name]._keypad) : Begin(name, c)
    /\ UNCHANGED <<pathVars, runVars, relayVars>>

NextPair ==
    \/ PairCalcCost
    \/ LookupPaths
    \/ PricePath
    \/ AddMin
    \/ Store

SpecPair == InitPair /\ [][NextPair]_vars

\* C13: for a sequence of buttons of a layout, the cost with a chain of
\* length d + 1 is at least the cost with a chain of length d, for every
\* d >= 0: of the answers of the two instances for the same code, the
\* one of the longer chain is not the smaller; and of two costs the cache
\* of an instance holds for the same sequence and layout, the one for
\* the greater chain length is not the smaller.
C13_NonDecreasingInDepth ==
    /\ \A c \in NumCodes \cup DirCodes :
          (<<"shallow", c>> \in DOMAIN answers /\ <<"deep", c>> \in DOMAIN answers)
              => ULeq(answers[<<"shallow", c>>], answers[<<"deep", c>>])
    /\ \A name \in DOMAIN robots :
          \A k1, k2 \in DOMAIN robots[name]._cost_cache :
              (k1[1] = k2[1] /\ k1[3] = k2[3] /\ k1[2] <= k2[2])
                  => ULeq(robots[name]._cost_cache[k1], robots[name]._cost_cache[k2])

\* 029A was priced at 28 with two and at 68 with three directional pads.
C13_Witness ==
    /\ Returned /\ calls = 2
    /\ robots["shallow"]._chain_len = 2 /\ IsNumpad(robots["shallow"]._keypad)
    /\ {<<"shallow", Code029A>>, <<"deep", Code029A>>} \subseteq DOMAIN answers
    /\ answers[<<"shallow", Code029A>>] = U(28)
    /\ answers[<<"deep", Code029A>>] = U(68)

\* C19: a step of a call on one instance leaves every other instance as
\* it is, its cost cache and the path caches of its Keypads included; and
\* whatever calls were made on either instance before, in whatever order,
\* a call returns the cost the recursive definition gives for its code and
\* the chain length and layout of its instance.
C19_InstancesAreSeparate ==
    [][ /\ \A name \in DOMAIN robots :
              name # active' => robots'[name] = robots[name]
        /\ (frames' = <<>> /\ calls' >= 1) =>
               cost' = RefCost(code', robots'[active']._chain_len,
                               robots'[active']._keypad)
      ]_vars

\* A call on each instance has returned, and each has filled its own cache.
C19_Witness ==
    /\ Returned /\ calls = 2 /\ active = "deep"
    /\ robots["deep"]._chain_len = 3 /\ IsNumpad(robots["deep"]._keypad)
    /\ Cardinality(DOMAIN robots["shallow"]._cost_cache) > 5
    /\ Cardinality(DOMAIN robots["deep"]._cost_cache) > 5
    /\ DOMAIN robots["shallow"]._cost_cache # DOMAIN robots["deep"]._cost_cache

----------------------------------------------------------------------------
(* Calls that name a button the layout does not have: a code with such a   *)
(* button handed to calc_cost, or such a button handed to get_min_paths.   *)

\* A char that is a button of neither layout.
NoButton == "X"

\* Whether a sequence has a button that is not on the layout.
OffLayout(c, kp) == \E i \in DOMAIN c : c[i] \notin Buttons(kp)

\* Codes with a button that is not on the layout: a move on the numeric
\* pad, a digit on the directional pad, a char of neither.
OffCodes(kp) ==
    IF kp._map = NumpadMap
    THEN { <<NoButton>>, <<"0", NoButton, "A">>, <<"<", "A">> }
    ELSE { <<"0">>, <<NoButton, "A">>, <<"<", "7", "A">> }

InitOff ==
    /\ \E kp \in {new_numpad, new_dirpad}, n \in 0..MaxChain :
          robots = ("chain" :> RobotChain(kp, n))
    /\ active = "chain"
    /\ frames = <<>>
    /\ code = <<>>
    /\ cost = U(0)
    /\ calls = 0
    /\ answers = EmptyMap
    /\ keypad \in {new_numpad, new_dirpad}
    /\ ab = <<>>
    /\ paths = <<>>
    /\ search = <<>>
    /\ NoRun
    /\ NoRelay

\* chain.calc_cost(&code) with a code that has a button off the layout.
OffCalcCost ==
    /\ ~Running
    /\ calls < MaxCalls
    /\ \E c \in OffCodes(robots["chain"]._keypad) : Begin("chain", c)
    /\ UNCHANGED <<pathVars, runVars, relayVars>>

\* keypad.get_min_paths(a, b) with a or b (or both) off the layout, on a
\* Keypad of its own, before the calls on the chain.
OffGetMinPaths ==
    /\ calls = 0
    /\ Cardinality(DOMAIN keypad._paths_cache) < MaxLookups
    /\ \E a \in Buttons(keypad) \cup {NoButton}, b \in Buttons(keypad) \cup {NoButton} :
          /\ OffLayout(<<a, b>>, keypad)
          /\ LET r == get_min_paths(keypad, a, b)
             IN  /\ keypad' = r.keypad
                 /\ ab' = <<a, b>>
                 /\ paths' = r.paths
                 /\ search' = search
    /\ UNCHANGED <<costVars, runVars, relayVars>>

NextOff ==
    \/ OffCalcCost
    \/ OffGetMinPaths
    \/ LookupPaths
    \/ PricePath
    \/ AddMin
    \/ Store

SpecOff == InitOff /\ [][NextOff]_vars

\* C14: a calc_cost call with a code that has a button off the layout, and
\* a get_min_paths call with a or b off the layout, fails and never
\* returns: no such call has returned a cost or a set of paths.
C14_OffLayoutNeverReturns ==
    /\ ~(Returned /\ OffLayout(code, Chain._keypad))
    /\ ~(Looked /\ OffLayout(ab, keypad))

----------------------------------------------------------------------------
(* Termination.  get_min_paths step by step: one step per iteration of its *)
(* while loop, on a Keypad of its own and for any two chars; and calc_cost *)
(* for codes on and off the layout.                                        *)

Searching == search # <<>>

\* The codes priced: on the layout and off it.
LiveCodes(kp) ==
    IF kp._map = NumpadMap
    THEN { <<"0", "2", "9", "A">>, <<"0", NoButton, "A">> }
    ELSE { <<"v", "<", "<", "A">>, <<"<", "7", "A">> }

\* Either a Keypad on which get_min_paths is called, or a RobotChain on
\* which calc_cost is.
InitLive ==
    /\ \/ /\ keypad \in {new_numpad, new_dirpad}
          /\ robots = EmptyMap
          /\ active = ""
       \/ /\ keypad = new_dirpad
          /\ \E kp \in {new_numpad, new_dirpad}, n \in 0..MaxChain :
                robots = ("chain" :> RobotChain(kp, n))
          /\ active = "chain"
    /\ ab = <<>>
    /\ paths = <<>>
    /\ search = <<>>
    /\ frames = <<>>
    /\ code = <<>>
    /\ cost = U(0)
    /\ calls = 0
    /\ answers = EmptyMap
    /\ NoRun
    /\ NoRelay

\* keypad.get_min_paths(a, b) is called, for any two chars: a cached pair
\* is answered at once, else the stack is set up with the entry for a.
SearchBegin ==
    /\ robots = EmptyMap
    /\ ~Searching
    /\ \E a \in Buttons(keypad) \cup {NoButton}, b \in Buttons(keypad) \cup {NoButton} :
          /\ ab = <<>> \/ ab = <<a, b>>
          /\ IF <<a, b>> \in DOMAIN keypad._paths_cache
             THEN /\ paths' = keypad._paths_cache[<<a, b>>]
                  /\ ab' = <<a, b>>
                  /\ search' = search
             ELSE /\ search' = [ a |-> a, b |-> b, found |-> <<>>,
                                 stack |-> <<[button |-> a, visited |-> {},
                                             path |-> <<>>]>> ]
                  /\ UNCHANGED <<ab, paths>>
    /\ UNCHANGED <<keypad, costVars, runVars, relayVars>>

\* One iteration of the while loop: the entry at the back is popped; a
\* button off the layout is dropped, a path that reached b is recorded, a
\* button visited on this path is skipped, else the neighbours are pushed.
SearchStep ==
    /\ Searching /\ search.stack # <<>>
    /\ LET top  == Top(search.stack)
           rest == Pop(search.stack)
       IN  search' =
             IF top.button \notin DOMAIN keypad._map
               THEN [search EXCEPT !.stack = rest]
             ELSE IF top.button = search.b
               THEN [search EXCEPT !.stack = rest,
                                   !.found = Push(@, Push(top.path, "A"))]
             ELSE IF top.button \in top.visited
               THEN [search EXCEPT !.stack = rest]
             ELSE [search EXCEPT !.stack =
                       rest \o Expand(keypad, keypad._map[top.button],
                                      top.visited \cup {top.button}, top.path, 1)]
    /\ UNCHANGED <<keypad, ab, paths, costVars, runVars, relayVars>>

\* The stack is empty: the paths of minimum length are cached and returned.
SearchEnd ==
    /\ Searching /\ search.stack = <<>>
    /\ LET filtered == Filter(search.found, MinLen(search.found))
       IN  /\ keypad' = [keypad EXCEPT !._paths_cache =
                             MapInsert(@, <<search.a, search.b>>, filtered)]
           /\ paths' = filtered
    /\ ab' = <<search.a, search.b>>
    /\ search' = <<>>
    /\ UNCHANGED <<costVars, runVars, relayVars>>

\* chain.calc_cost(&code), once the call before it has returned.
LiveCalcCost ==
    /\ robots # EmptyMap
    /\ ~Running
    /\ calls < MaxCalls
    /\ \E c \in LiveCodes(robots["chain"]._keypad) : Begin("chain", c)
    /\ UNCHANGED <<pathVars, runVars, relayVars>>

NextLive ==
    \/ SearchBegin
    \/ SearchStep
    \/ SearchEnd
    \/ LiveCalcCost
    \/ LookupPaths
    \/ PricePath
    \/ AddMin
    \/ Store

\* The steps of a call in progress other than the lookup of the paths of
\* a pair; at most one step is enabled at a time.
CallStep ==
    \/ SearchStep
    \/ SearchEnd
    \/ PricePath
    \/ AddMin
    \/ Store

\* Whether LookupPaths is the step that is next (its guard).
LookupDue ==
    Running /\ Top(frames).at = "pair" /\ Top(frames).i <= Len(Top(frames).code)

\* A call in progress takes its next step: the program is sequential and
\* nothing can hold a step back.  For LookupPaths, weak fairness is
\* written out with the guard of the action for ENABLED.
SpecLive ==
    /\ InitLive /\ [][NextLive]_vars
    /\ WF_vars(CallStep)
    /\ ([]<>(~LookupDue) \/ []<><<LookupPaths>>_vars)

\* Each entry of the search stack has visited as many buttons as its path
\* has moves, all of them buttons of the layout: no path visits a button
\* twice, so no path is longer than the layout has buttons.
SearchVisitsOnce ==
    Searching =>
        \A k \in DOMAIN search.stack :
            /\ search.stack[k].visited \subseteq Buttons(keypad)
            /\ Cardinality(search.stack[k].visited) = Len(search.stack[k].path)

\* Each activation has a chain length one less than the one that called it.
DepthDecreases ==
    \A k \in DOMAIN frames :
        /\ frames[k].chain_len >= 1
        /\ k > 1 => frames[k].chain_len = frames[k - 1].chain_len - 1

\* C20: every call terminates.  A get_min_paths call in progress, for any
\* two chars, on or off the layout, on either layout, comes to return, as
\* no path of the search visits a button twice; a calc_cost call in
\* progress, for a code on or off the layout and every chain length, comes
\* to return, as every recursive call has a chain length one less.
C20_EveryCallTerminates ==
    /\ [](SearchVisitsOnce /\ DepthDecreases)
    /\ (Searching ~> ~Searching)
    /\ (Running ~> ~Running)

\* A search for a button the layout does not have has returned, with no
\* path, from a corner of the numeric pad.
C20_Witness ==
    /\ ~Searching /\ IsNumpad(keypad)
    /\ ab = <<"7", NoButton>> /\ paths = <<>>
    /\ <<"7", NoButton>> \in DOMAIN keypad._paths_cache

----------------------------------------------------------------------------
(* The relay: d arms, each over a button of its pad.  Arm d is over the    *)
(* numeric pad; arm i < d is over the directional pad that steers arm      *)
(* i + 1; the human presses the keys of the directional pad that steers    *)
(* arm 1.  A move key moves the arm steered, which must land on a button;  *)
(* 'A' makes the arm steered press the button it is over.                  *)

\* Bound on the number of arms of the relay.
MaxArms == 3

\* The layout arm i of the arms is over.
PadOf(as, i) == IF i = Len(as) THEN new_numpad ELSE new_dirpad

\* Key k is pressed on the pad that steers arm i: whether every arm stays
\* on a button, the arms after it, and the button pressed on the numeric
\* pad, if one is ("" if none).
RECURSIVE PressOn(_, _, _)
PressOn(as, i, k) ==
    IF k \in Moves
    THEN LET pad == PadOf(as, i)
             to  == Step(pad._map[as[i]], k)
         IN  IF to \in Cells(pad)
             THEN [ok |-> TRUE, arms |-> [as EXCEPT ![i] = pad._pos_map[to]],
                   button |-> ""]
             ELSE [ok |-> FALSE, arms |-> as, button |-> ""]
    ELSE IF i = Len(as) THEN [ok |-> TRUE, arms |-> as, button |-> as[i]]
    ELSE PressOn(as, i + 1, as[i])

\* Whether pressing k keeps the relay on the way to typing c: no arm leaves
\* the buttons, and a button pressed on the numeric pad is the next of c.
Allowed(r, sofar, c) ==
    /\ r.ok
    /\ r.button # "" => Len(sofar) < Len(c) /\ c[Len(sofar) + 1] = r.button

\* The shortest of a set of key sequences.
ShortestOf(S) == CHOOSE x \in S : \A y \in S : Len(x) <= Len(y)

\* The keys the human presses under a cheapest plan for c with d arms
\* steering the arm over kp: c itself with no arm; else, pair by pair from
\* 'A', the shortest of the plans for the paths of the pair.
RECURSIVE Plan(_, _, _), PlanFrom(_, _, _, _)
PlanFrom(c, d, kp, i) ==
    IF i > Len(c) THEN <<>>
    ELSE ShortestOf({Plan(p, d - 1, new_dirpad) :
                       p \in ShortestWalksA(kp, IF i = 1 THEN "A" ELSE c[i - 1], c[i])})
             \o PlanFrom(c, d, kp, i + 1)

Plan(c, d, kp) == IF d = 0 THEN c ELSE PlanFrom(c, d, kp, 1)

\* The codes typed through the relay.
RelayCodes == NumCodes \cup {<<"4">>, <<"1", "7">>, <<"3", "7">>}

InitRelay ==
    /\ \E n \in 1..MaxArms : robots = ("chain" :> RobotChain(new_numpad, n))
    /\ active = "chain"
    /\ frames = <<>>
    /\ code = <<>>
    /\ cost = U(0)
    /\ calls = 0
    /\ answers = EmptyMap
    /\ NoPaths
    /\ NoRun
    /\ NoRelay

\* chain.calc_cost(&code) on the new chain; the relay is set up for the
\* code, every arm over 'A'.
RelayCalcCost ==
    /\ calls = 0
    /\ \E c \in RelayCodes :
          /\ Begin("chain", c)
          /\ plan' = Plan(c, robots["chain"]._chain_len, new_numpad)
    /\ arms' = [i \in 1..robots["chain"]._chain_len |-> "A"]
    /\ typed' = <<>>
    /\ presses' = 0
    /\ onplan' = TRUE
    /\ UNCHANGED <<pathVars, runVars>>

\* The human presses a key, once the cost is known: any key that keeps
\* the relay on the way to the code, while fewer keys were pressed than
\* the cost says are needed.
HumanPress ==
    /\ Returned
    /\ typed # code
    /\ ULess(U(presses), cost)
    /\ \E k \in Moves \cup {"A"} :
          LET r == PressOn(arms, 1, k)
          IN  /\ Allowed(r, typed, code)
              /\ arms' = r.arms
              /\ typed' = IF r.button = "" THEN typed ELSE Append(typed, r.button)
              /\ onplan' = (onplan /\ presses < Len(plan) /\ plan[presses + 1] = k)
    /\ presses' = presses + 1
    /\ UNCHANGED <<plan, costVars, pathVars, runVars>>

NextRelay ==
    \/ RelayCalcCost
    \/ LookupPaths
    \/ PricePath
    \/ AddMin
    \/ Store
    \/ HumanPress

SpecRelay == InitRelay /\ [][NextRelay]_vars

\* C1: for a code and d >= 1 arms, the cost calc_cost returns is the least
\* number of keys the human presses to have the numeric pad receive the
\* code: no presses fewer than the cost type the code, and the keys of the
\* plan, as many as the cost, are all allowed and type the code.
C1_CostIsLeastPresses ==
    Returned =>
        /\ typed = code => ULeq(cost, U(presses))
        /\ onplan =>
              /\ U(Len(plan)) = cost
              /\ presses < Len(plan) =>
                    Allowed(PressOn(arms, 1, plan[presses + 1]), typed, code)
              /\ presses = Len(plan) => typed = code

C1_Witness ==
    /\ Returned /\ Chain._chain_len = 3 /\ code = Code029A
    /\ typed = code /\ presses = 68 /\ cost = U(68) /\ onplan

----------------------------------------------------------------------------
(* The cost from the layouts alone, level by level: what it costs the      *)
(* human to have an arm of a directional pad go from button a to button b  *)
(* and press it, with d directional pads between the human and that pad.   *)

\* The buttons of the directional pad, numbered, and the pairs of them,
\* numbered row by row: a table of pair costs is the sequence of the costs
\* of the pairs in this order.
DirButtons == <<"^", "A", "<", "v", ">">>

ButtonNo(x) == CHOOSE n \in DOMAIN DirButtons : DirButtons[n] = x

PairNo(a, b) == (ButtonNo(a) - 1) * Len(DirButtons) + ButtonNo(b)

PairCount == Len(DirButtons) * Len(DirButtons)

FirstOf(n) == DirButtons[((n - 1) \div Len(DirButtons)) + 1]

SecondOf(n) == DirButtons[((n - 1) % Len(DirButtons)) + 1]

\* The cost of the keys p under the table t of pair costs, from 'A'.
RECURSIVE KeysCost(_, _, _)
KeysCost(t, p, i) ==
    IF i > Len(p) THEN U(0)
    ELSE UAdd(t[PairNo(IF i = 1 THEN "A" ELSE p[i - 1], p[i])], KeysCost(t, p, i + 1))

\* The least cost under t of the shortest walks from a to b on kp.
LeastWalkCost(t, kp, a, b) ==
    UMinOf({KeysCost(t, p, 1) : p \in ShortestWalksA(kp, a, b)})

\* Level 0: the human presses b itself, one key.
Table0 == [n \in 1..PairCount |-> U(1)]

\* The table of the level above t: for each pair, the least over the
\* shortest walks from a to b of the walk's cost under t; pairs n and on.
RECURSIVE TableAbove(_, _)
TableAbove(t, n) ==
    IF n > PairCount THEN <<>>
    ELSE <<LeastWalkCost(t, new_dirpad, FirstOf(n), SecondOf(n))>>
             \o TableAbove(t, n + 1)

\* The table k levels above t.
RECURSIVE TableUp(_, _)
TableUp(t, k) ==
    IF k = 0 THEN t
    ELSE LET above == TableAbove(t, 1)
         IN  IF Len(above) = PairCount THEN TableUp(above, k - 1) ELSE <<>>

\* The tables for the chain lengths of run: 3 and 26 directional pads.
Table2 == TableUp(Table0, 2)
Table25 == TableUp(Table0, 25)

\* The cost of typing code c on the numeric pad, by the table of the
\* directional pad that steers its arm.
RECURSIVE TypedCost(_, _, _)
TypedCost(t, c, i) ==
    IF i > Len(c) THEN U(0)
    ELSE UAdd(LeastWalkCost(t, new_numpad, IF i = 1 THEN "A" ELSE c[i - 1], c[i]),
              TypedCost(t, c, i + 1))

----------------------------------------------------------------------------
(* run.                                                                    *)

Digits == {"0", "1", "2", "3", "4", "5", "6", "7", "8", "9"}

\* Every letter and digit counts as numeric.
is_alphanumeric(c) == c \in Digits \cup {"A"}

\* char::is_numeric, on the characters of the inputs modelled.
is_numeric(c) == c \in Digits

DigitValue(c) ==
    CASE c = "0" -> 0 [] c = "1" -> 1 [] c = "2" -> 2 [] c = "3" -> 3
      [] c = "4" -> 4 [] c = "5" -> 5 [] c = "6" -> 6 [] c = "7" -> 7
      [] c = "8" -> 8 [] c = "9" -> 9

\* code.into_iter().filter(|c| c.is_numeric()): the numeric chars, in order.
RECURSIVE FilterNumeric(_)
FilterNumeric(c) ==
    IF c = <<>> THEN <<>>
    ELSE IF is_numeric(Head(c)) THEN <<Head(c)>> \o FilterNumeric(Tail(c))
    ELSE FilterNumeric(Tail(c))

\* The decimal digits d read as a number (the inputs modelled have at
\* most four digits).
RECURSIVE ParseDigits(_, _)
ParseDigits(d, acc) ==
    IF d = <<>> THEN acc ELSE ParseDigits(Tail(d), acc * 10 + DigitValue(Head(d)))

\* The empty string is parsed as 0.
parseEmptyZero(d) ==
    IF ~(Range(d) \subseteq Digits) THEN [ok |-> FALSE, num |-> 0]
    ELSE [ok |-> TRUE, num |-> ParseDigits(d, 0)]

\* str::parse::<usize>: an empty string and a string with a char that is
\* no decimal digit are errors.
parse(d) ==
    IF d = <<>> \/ ~(Range(d) \subseteq Digits) THEN [ok |-> FALSE, num |-> 0]
    ELSE [ok |-> TRUE, num |-> ParseDigits(d, 0)]

Ok(v) == <<"Ok", v>>
Err(e) == <<"Err", e>>

Line(a, b, c, d) == <<a, b, c, d>>

\* The input of test_run.
TestInput ==
    << Line("0", "2", "9", "A"), Line("9", "8", "0", "A"), Line("1", "7", "9", "A"),
       Line("4", "5", "6", "A"), Line("3", "7", "9", "A") >>

\* The orders of a list of codes.
Perms(cs) ==
    {[i \in DOMAIN cs |-> cs[f[i]]] : f \in Permutations(DOMAIN cs)}

\* Three codes, given to run in each of their orders.
PermList ==
    << Line("0", "2", "9", "A"), Line("9", "8", "0", "A"), Line("1", "7", "9", "A") >>

\* A line with a char that is neither a digit nor 'A'.
BadInput == << Line("0", "2", NoButton, "A") >>

\* One code, and the same code twice.
OneInput == << Line("0", "2", "9", "A") >>
TwiceInput == << Line("0", "2", "9", "A"), Line("0", "2", "9", "A") >>

\* A code of five buttons.
FiveInput == << <<"1", "7", "9", "3", "A">> >>

\* Inputs with a line that has no digit: a bare 'A', an empty line, and
\* each of them after a line that has digits.
BareAInput == << <<"A">> >>
EmptyLineInput == << <<>> >>
LateBareAInput == << Line("0", "2", "9", "A"), <<"A">>, Line("9", "8", "0", "A") >>
LateEmptyLineInput == << Line("0", "2", "9", "A"), <<>> >>

NoDigitInputs == {BareAInput, EmptyLineInput, LateBareAInput, LateEmptyLineInput}

\* The inputs run is given.
RunInputs ==
    {TestInput, OneInput, TwiceInput, BadInput, FiveInput}
        \cup Perms(PermList) \cup NoDigitInputs

\* run(r), after read_input: the totals are 0 and the two chains are new.
InitRun ==
    /\ codes \in RunInputs
    /\ line = 1
    /\ pc = "cost3"
    /\ cost3 = U(0)
    /\ total3 = U(0)
    /\ total26 = U(0)
    /\ result = <<>>
    /\ robots = ("robot3" :> RobotChain(new_numpad, 3))
                  @@ ("robot26" :> RobotChain(new_numpad, 26))
    /\ active = "robot3"
    /\ frames = <<>>
    /\ code = <<>>
    /\ cost = U(0)
    /\ calls = 0
    /\ answers = EmptyMap
    /\ NoPaths
    /\ NoRelay

\* let cost3 = robot3.calc_cost(&code);
RunCost3 ==
    /\ pc = "cost3" /\ ~Running /\ line <= Len(codes)
    /\ Begin("robot3", codes[line])
    /\ pc' = "cost26"
    /\ UNCHANGED <<codes, line, cost3, total3, total26, result, pathVars, relayVars>>

\* let cost26 = robot26.calc_cost(&code);
RunCost26 ==
    /\ pc = "cost26" /\ ~Running
    /\ cost3' = cost
    /\ Begin("robot26", codes[line])
    /\ pc' = "num"
    /\ UNCHANGED <<codes, line, total3, total26, result, pathVars, relayVars>>

\* The rest of the loop body: the code's numeric chars are parsed (an
\* error is returned by ?), and the totals take cost * num.
RunTotals ==
    /\ pc = "num" /\ ~Running
    /\ LET num == parse(FilterNumeric(codes[line]))
       IN  IF num.ok
           THEN /\ total3' = UAdd(total3, UMul(cost3, num.num))
                /\ total26' = UAdd(total26, UMul(cost, num.num))
                /\ line' = line + 1
                /\ pc' = "cost3"
                /\ result' = result
           ELSE /\ result' = Err("ParseIntError")
                /\ pc' = "done"
                /\ UNCHANGED <<total3, total26, line>>
    /\ UNCHANGED <<codes, cost3, costVars, pathVars, relayVars>>

\* The totals are returned in the other order.
RunReturnSwapped ==
    /\ pc = "cost3" /\ line > Len(codes)
    /\ result' = Ok(<<total26, total3>>)
    /\ pc' = "done"
    /\ UNCHANGED <<codes, line, cost3, total3, total26, costVars, pathVars, relayVars>>

\* Ok((total3, total26))
RunReturn ==
    /\ pc = "cost3" /\ line > Len(codes)
    /\ result' = Ok(<<total3, total26>>)
    /\ pc' = "done"
    /\ UNCHANGED <<codes, line, cost3, total3, total26, costVars, pathVars, relayVars>>

NextRun ==
    \/ RunCost3
    \/ RunCost26
    \/ RunTotals
    \/ RunReturn
    \/ LookupPaths
    \/ PricePath
    \/ AddMin
    \/ Store

SpecRun == InitRun /\ [][NextRun]_vars

\* C3: for the input 029A, 980A, 179A, 456A, 379A, run returns Ok with the
\* first total 126384.
C3_ShallowTotal ==
    (pc = "done" /\ codes = TestInput) =>
        result[1] = "Ok" /\ result[2][1] = U(126384)

C3_Witness ==
    /\ pc = "done" /\ codes = TestInput /\ line = 6
    /\ result[1] = "Ok" /\ total3 = U(126384)

\* 154115708116294 as a usize: 154 115708 116294.
DeepTotal == <<116294, 115708, 154>>

\* C4: for the same input, run returns Ok with the second total
\* 154115708116294.
C4_DeepTotal ==
    (pc = "done" /\ codes = TestInput) =>
        result[1] = "Ok" /\ result[2][2] = DeepTotal

C4_Witness ==
    /\ pc = "done" /\ codes = TestInput /\ calls = 10
    /\ result[1] = "Ok" /\ total26 = DeepTotal /\ Fits64(total26)

\* The alphabet of the input, and whether some line has a char outside it.
ValidChars == Digits \cup {"A"}

Malformed(cs) == \E i \in DOMAIN cs : \E j \in DOMAIN cs[i] : cs[i][j] \notin ValidChars

\* C15: when a line of the input has a char outside the alphabet, run
\* returns an error and no totals.
C15_MalformedLineIsFatal ==
    (pc = "done" /\ Malformed(codes)) => result[1] = "Err"

\* The numeric value of a code: its digits, in order, read as a decimal
\* number; the other chars are passed over.
RECURSIVE Decimal(_)
Decimal(ds) ==
    IF ds = <<>> THEN 0
    ELSE 10 * Decimal(SubSeq(ds, 1, Len(ds) - 1)) + DigitValue(ds[Len(ds)])

Value(c) == Decimal(SelectSeq(c, LAMBDA x : x \in Digits))

\* The sum over the codes of what instance name answered for the code
\* times the value of the code.
RECURSIVE WeightedSum(_, _, _)
WeightedSum(name, cs, i) ==
    IF i > Len(cs) THEN U(0)
    ELSE UAdd(UMul(answers[<<name, cs[i]>>], Value(cs[i])),
              WeightedSum(name, cs, i + 1))

\* Whether every line has only chars of the alphabet and a digit.
WellFormed(cs) ==
    /\ ~Malformed(cs)
    /\ \A i \in DOMAIN cs : \E j \in DOMAIN cs[i] : cs[i][j] \in Digits

\* C16: for an input of well-formed lines, run returns Ok with the pair
\* (shallow total, deep total), in that order: the shallow total is the sum
\* over the codes of the cost of the code with 3 directional pads times the
\* value of the code, the deep total the same with 26; the value is the
\* digits read as a decimal number, so that 029A alone gives 68 * 29.
C16_WeightedTotalsInOrder ==
    (pc = "done" /\ WellFormed(codes)) =>
        /\ result[1] = "Ok"
        /\ \A i \in DOMAIN codes :
              /\ answers[<<"robot3", codes[i]>>] = TypedCost(Table2, codes[i], 1)
              /\ answers[<<"robot26", codes[i]>>] = TypedCost(Table25, codes[i], 1)
        /\ result[2] = << WeightedSum("robot3", codes, 1),
                          WeightedSum("robot26", codes, 1) >>
        /\ codes = OneInput => result[2][1] = UMul(U(68), 29)

C16_Witness ==
    /\ pc = "done" /\ codes = TwiceInput
    /\ result[1] = "Ok" /\ result[2][1] = UMul(U(68), 58)
    /\ ULess(result[2][1], result[2][2])

\* The totals of a list of codes from the layouts alone, under table t.
RECURSIVE RefTotal(_, _, _)
RefTotal(t, cs, i) ==
    IF i > Len(cs) THEN U(0)
    ELSE UAdd(UMul(TypedCost(t, cs[i], 1), Value(cs[i])), RefTotal(t, cs, i + 1))

\* C17: whatever the order in which the three codes of PermList are given,
\* run returns the same pair of totals, the totals of the list.
C17_TotalsIgnoreOrder ==
    (pc = "done" /\ codes \in Perms(PermList)) =>
        result = Ok(<< RefTotal(Table2, PermList, 1), RefTotal(Table25, PermList, 1) >>)

\* The codes were given in another order than PermList's, and the later
\* calls found the cache the earlier ones filled.
C17_Witness ==
    /\ pc = "done" /\ codes = << PermList[3], PermList[1], PermList[2] >>
    /\ result[1] = "Ok"
    /\ Cardinality(DOMAIN robots["robot26"]._cost_cache) > 100

----------------------------------------------------------------------------
(* The two layouts, as the Keypads in use hold them.                       *)

\* Every Keypad in use: the one get_min_paths is called on directly, the
\* two of each RobotChain, and the one of each activation in progress.
KeypadsInUse ==
    {keypad}
      \cup {robots[name]._keypad : name \in DOMAIN robots}
      \cup {robots[name]._dir_keypad : name \in DOMAIN robots}
      \cup {frames[k].keypad : k \in DOMAIN frames}

\* The bounding rectangle of a set of positions.
Least(S) == CHOOSE n \in S : \A m \in S : n <= m
Greatest(S) == CHOOSE n \in S : \A m \in S : n >= m

Bounding(ps) ==
    (Least({p[1] : p \in ps}) .. Greatest({p[1] : p \in ps}))
        \X (Least({p[2] : p \in ps}) .. Greatest({p[2] : p \in ps}))

\* C21: in every Keypad in use, before and after any lookup, _map is
\* injective, _pos_map is its inverse (_pos_map[_map[b]] = b for every
\* button b, _map[_pos_map[p]] = p for every position p, both of the same
\* size), and exactly one cell of the bounding rectangle of the positions
\* holds no button: (0,0) of the 3x4 numeric pad (11 buttons), (0,1) of
\* the 3x2 directional pad (5 buttons).
C21_LayoutsInverseOneGap ==
    \A kp \in KeypadsInUse :
        LET ps == {kp._map[b] : b \in DOMAIN kp._map}
        IN  /\ \A b1, b2 \in DOMAIN kp._map : kp._map[b1] = kp._map[b2] => b1 = b2
            /\ DOMAIN kp._pos_map = ps
            /\ \A b \in DOMAIN kp._map : kp._pos_map[kp._map[b]] = b
            /\ \A p \in DOMAIN kp._pos_map : kp._map[kp._pos_map[p]] = p
            /\ Cardinality(DOMAIN kp._pos_map) = Cardinality(DOMAIN kp._map)
            /\ IF "0" \in DOMAIN kp._map
               THEN /\ Bounding(ps) = (0..2) \X (0..3)
                    /\ Bounding(ps) \ ps = {<<0, 0>>}
                    /\ Cardinality(DOMAIN kp._map) = 11
               ELSE /\ Bounding(ps) = (0..2) \X (0..1)
                    /\ Bounding(ps) \ ps = {<<0, 1>>}
                    /\ Cardinality(DOMAIN kp._map) = 5

\* A chain on the numeric pad is three activations deep, the innermost on
\* a directional pad that has cached a lookup: both layouts are in use.
C21_Witness ==
    /\ Len(frames) = 3
    /\ "7" \in DOMAIN frames[1].keypad._map
    /\ frames[1].keypad._pos_map[<<0, 3>>] = "7"
    /\ "<" \in DOMAIN frames[3].keypad._map
    /\ frames[3].keypad._pos_map[<<0, 0>>] = "<"
    /\ frames[3].keypad._paths_cache # EmptyMap

----------------------------------------------------------------------------
(* The width of usize.                                                     *)

\* The greatest cost of a pair of buttons of the numeric pad under the
\* table t of the directional pad that steers its arm.
WorstPair(t) ==
    CHOOSE x \in {LeastWalkCost(t, new_numpad, a, b) :
                     a \in DOMAIN NumpadMap, b \in DOMAIN NumpadMap} :
        \A a \in DOMAIN NumpadMap, b \in DOMAIN NumpadMap :
            ULeq(LeastWalkCost(t, new_numpad, a, b), x)

\* A bound on cost * num for any code of five buttons with a value below
\* 100000, with 26 directional pads: 5 * worst pair * 100000.
WorstLine == UMul(UMul(UMul(WorstPair(Table25), 5), 1000), 100)

----------------------------------------------------------------------------
(* One directional pad: the human steers the arm of the numeric pad.       *)

\* The sum over the pairs of c, the first from 'A', of the Manhattan
\* distance of the two buttons on the numeric layout plus one; pairs i on.
RECURSIVE ManhattanSum(_, _)
ManhattanSum(c, i) ==
    IF i > Len(c) THEN 0
    ELSE Manhattan(NumpadMap[IF i = 1 THEN "A" ELSE c[i - 1]], NumpadMap[c[i]]) + 1
             + ManhattanSum(c, i + 1)

\* C23: with a chain length of 1, the cost calc_cost returns for a code
\* on the numeric pad, with an empty or a filled cost cache, is the sum
\* over the pairs of the code, from 'A', of the Manhattan distance of the
\* pair plus one (the 'A' that presses); 12 costs 6 and 593 costs 10.
C23_DepthOneIsManhattan ==
    (Returned /\ Chain._chain_len = 1 /\ IsNumpad(Chain._keypad)) =>
        /\ cost = U(ManhattanSum(code, 1))
        /\ code = <<"1", "2">> => cost = U(6)
        /\ code = <<"5", "9", "3">> => cost = U(10)

\* 593 was priced at 10 after 12 was priced at 6.
C23_Witness ==
    /\ Returned /\ calls = 2 /\ Chain._chain_len = 1 /\ IsNumpad(Chain._keypad)
    /\ code = <<"5", "9", "3">> /\ cost = U(10)
    /\ <<"chain", <<"1", "2">>>> \in DOMAIN answers
    /\ answers[<<"chain", <<"1", "2">>>>] = U(6)

----------------------------------------------------------------------------
(* The shape of a path.                                                    *)

\* Whether both chars are buttons of the layout.
ValidPair(kp, p) == p[1] \in Buttons(kp) /\ p[2] \in Buttons(kp)

\* The cell the moves w lead to from pos.
EndOf(pos, w) == IF w = <<>> THEN pos ELSE Trace(pos, w)[Len(w)]

\* Whether p is moves followed by one 'A', its last token, the moves
\* leading from a's cell to b's cell on kp.
PathShape(kp, a, b, p) ==
    /\ Len(p) >= 1
    /\ p[Len(p)] = "A"
    /\ Range(MovesOf(p)) \subseteq Moves
    /\ EndOf(kp._map[a], MovesOf(p)) = kp._map[b]

\* C24: every path get_min_paths(a, b) returns for two buttons of the
\* layout, called directly or by an activation of _calc_cost, is zero or
\* more moves of ^ v < > followed by one 'A' as its last token, and the
\* moves lead from a's cell to b's cell; every activation below the one
\* calc_cost starts is on the directional layout and prices a sequence
\* that ends with 'A'.
C24_PathsEndWithA ==
    /\ (Looked /\ ValidPair(keypad, ab)) =>
           \A p \in Range(paths) : PathShape(keypad, ab[1], ab[2], p)
    /\ \A k \in DOMAIN frames :
          LET f == frames[k]
          IN  (f.at = "path" /\ ValidPair(f.keypad, PairAt(f.code, f.i))) =>
                  \A p \in Range(f.paths) :
                      PathShape(f.keypad, PairAt(f.code, f.i)[1],
                                PairAt(f.code, f.i)[2], p)
    /\ \A k \in DOMAIN frames :
          k > 1 =>
              /\ frames[k].keypad._map = DirpadMap
              /\ frames[k].code # <<>>
              /\ frames[k].code[Len(frames[k].code)] = "A"

\* An activation two below the one calc_cost started, for a chain on the
\* numeric pad, has looked up a pair with two paths, and prices a path
\* that its caller looked up.
C24_Witness ==
    /\ Len(frames) = 3 /\ IsNumpad(frames[1].keypad)
    /\ Top(frames).at = "path" /\ Len(Top(frames).paths) = 2
    /\ Top(frames).code = frames[2].paths[frames[2].j]
    /\ Top(frames).code[Len(Top(frames).code)] = "A"

----------------------------------------------------------------------------
(* Ties: paths of one pair, all of minimum length, that cost differently.  *)

\* The cost by the recursive definition with the first path returned for
\* each pair in place of the cheapest.
RECURSIVE FirstCost(_, _, _), FirstSum(_, _, _, _)
FirstSum(c, d, kp, i) ==
    IF i > Len(c) THEN U(0)
    ELSE LET ps == get_min_paths(kp, IF i = 1 THEN "A" ELSE c[i - 1], c[i]).paths
         IN  UAdd(IF ps = <<>> THEN U(0) ELSE FirstCost(ps[1], d - 1, new_dirpad),
                  FirstSum(c, d, kp, i + 1))

FirstCost(c, d, kp) == IF d = 0 THEN U(Len(c)) ELSE FirstSum(c, d, kp, 1)

\* Whether an activation has priced every path of its pair.
PathsPriced(f) == f.at = "path" /\ f.j > Len(f.paths)

\* C25: ties matter.  On the numeric pad the pair ('A', '1') has two
\* paths of minimum length, <^<A and ^<<A, which cost 14 and 10 with one
\* directional pad below (depth 1 <= 3): an activation with chain length 2
\* that has priced them holds two different costs.  So the cost returned
\* is never above the cost by the first path of each pair, and is below
\* it for 12 with a chain of length 2 or 3 (14 for 18, 36 for 48) and for
\* 029A with a chain of length 3 (68 for 72).
C25_TiesMatter ==
    /\ \A k \in DOMAIN frames :
          LET f == frames[k]
          IN  (PathsPriced(f) /\ IsNumpad(f.keypad) /\ f.chain_len = 2
                 /\ PairAt(f.code, f.i) = <<"A", "1">>) =>
                  /\ f.paths = << <<"<", "^", "<", "A">>, <<"^", "<", "<", "A">> >>
                  /\ f.costs = <<U(14), U(10)>>
    /\ Returned =>
          LET first == FirstCost(code, Chain._chain_len, Chain._keypad)
          IN  /\ ULeq(cost, first)
              /\ (IsNumpad(Chain._keypad) /\ code = <<"1", "2">>
                    /\ Chain._chain_len >= 2) => ULess(cost, first)
              /\ (IsNumpad(Chain._keypad) /\ code = Code029A
                    /\ Chain._chain_len = 3) => cost = U(68) /\ first = U(72)

\* The activation for 12 with a chain of length 2 has priced the two paths
\* of ('A', '1'), the first at 14 and the second at 10.
C25_Witness ==
    /\ Len(frames) = 1 /\ PathsPriced(frames[1])
    /\ IsNumpad(frames[1].keypad) /\ frames[1].chain_len = 2
    /\ frames[1].code = <<"1", "2">> /\ frames[1].i = 1
    /\ frames[1].costs = <<U(14), U(10)>>

----------------------------------------------------------------------------
(* The fallbacks: unwrap_or(0) of the minimum length and of the minimum    *)
(* cost.                                                                   *)

\* C26: for every two buttons a, b of a layout, on the numeric and on the
\* directional pad, get_min_paths(a, b) returns at least one path, called
\* directly or by an activation of _calc_cost, and caches at least one;
\* so an activation that has priced the paths of such a pair takes the
\* minimum of at least one cost, never the fallback 0.
C26_ValidPairHasPath ==
    /\ (Looked /\ ValidPair(keypad, ab)) => paths # <<>>
    /\ \A p \in DOMAIN keypad._paths_cache :
          ValidPair(keypad, p) => keypad._paths_cache[p] # <<>>
    /\ \A k \in DOMAIN frames :
          LET f == frames[k]
          IN  (f.at = "path" /\ ValidPair(f.keypad, PairAt(f.code, f.i))) =>
                  /\ f.paths # <<>>
                  /\ PathsPriced(f) =>
                        /\ f.costs # <<>>
                        /\ ULess(U(0), MinCost(f.costs))

\* The search from 'A' to '7' on the numeric pad, the two farthest
\* buttons with the gap between, has returned its nine paths.
C26_Witness ==
    /\ ~Searching /\ IsNumpad(keypad)
    /\ ab = <<"A", "7">> /\ Len(paths) = 9
    /\ <<"A", "7">> \in DOMAIN keypad._paths_cache

\* C27: for every button a of either layout, get_min_paths(a, a) returns
\* exactly one path, the single token 'A', called directly or by an
\* activation of _calc_cost; an activation that has priced the paths of
\* such a pair holds the one cost 1, whatever its chain length, so the
\* second press of a button adds 1 to the total; and the cost caches hold
\* 1 for the sequence 'A' at every chain length.
C27_SameButtonCostsOne ==
    /\ (Looked /\ ab[1] = ab[2] /\ ValidPair(keypad, ab)) => paths = << <<"A">> >>
    /\ \A k \in DOMAIN frames :
          LET f  == frames[k]
              pr == PairAt(f.code, f.i)
          IN  (f.at = "path" /\ pr[1] = pr[2] /\ ValidPair(f.keypad, pr)) =>
                  /\ f.paths = << <<"A">> >>
                  /\ PathsPriced(f) => f.costs = <<U(1)>>
    /\ \A name \in DOMAIN robots :
          \A key \in DOMAIN robots[name]._cost_cache :
              key[1] = <<"A">> => robots[name]._cost_cache[key] = U(1)

\* With a chain of length 3, an activation with chain length 2 has priced
\* the one path of ('<', '<') at 1, and the cost cache holds 1 for 'A'
\* with chain length 1.
C27_Witness ==
    /\ Len(frames) = 2 /\ frames[1].chain_len = 3 /\ PathsPriced(frames[2])
    /\ PairAt(frames[2].code, frames[2].i) = <<"<", "<">>
    /\ frames[2].costs = <<U(1)>>
    /\ CacheKey(<<"A">>, 1, new_dirpad) \in DOMAIN Chain._cost_cache

----------------------------------------------------------------------------
(* Lines without a digit.                                                  *)

\* main, for what run returned: the two totals are printed and the exit
\* code is SUCCESS, or the error is printed and the exit code is 1.
main(res) ==
    IF res[1] = "Ok"
    THEN [exit |-> 0, printed |-> <<res[2][1], res[2][2]>>]
    ELSE [exit |-> 1, printed |-> <<"error running", res[2]>>]

\* Whether a line has no digit, and the first such line of an input.
NoDigit(c) == \A j \in DOMAIN c : c[j] \notin Digits

FirstNoDigit(cs) ==
    CHOOSE i \in DOMAIN cs : NoDigit(cs[i]) /\ \A h \in 1..(i - 1) : ~NoDigit(cs[h])

\* C28: when a line of the input has no digit (an empty line and a bare
\* 'A' included), run returns the error of parse and no totals, at the
\* first such line, whatever the lines before it added to the totals; so
\* main prints the error and no total, and exits with 1.  Until then run
\* has returned nothing.
C28_NoDigitLineIsError ==
    (\E i \in DOMAIN codes : NoDigit(codes[i])) =>
        /\ pc = "done" =>
              /\ result = Err("ParseIntError")
              /\ line = FirstNoDigit(codes)
              /\ main(result) = [exit |-> 1,
                                 printed |-> <<"error running", "ParseIntError">>]
        /\ pc # "done" => result = <<>>

\* run has returned the error at the bare 'A' of the second line, with
\* the totals of the first line added up.
C28_Witness ==
    /\ pc = "done" /\ codes = LateBareAInput /\ line = 2
    /\ result = Err("ParseIntError")
    /\ total3 = UMul(U(68), 29) /\ ULess(total3, total26)

----------------------------------------------------------------------------
(* What a calc_cost call writes.                                           *)

\* C29: every step of every calc_cost call, with calls made before it or
\* not, leaves each instance's _chain_len, its _keypad and its
\* _dir_keypad (their layouts _map and _pos_map, and their path caches)
\* as they are: of an instance only _cost_cache may change.  The code
\* handed to the call is not written: it is the same at every step of the
\* call, for the activation calc_cost started and for every other
\* activation in progress.
C29_OnlyCostCacheChanges ==
    [][ /\ \A name \in DOMAIN robots :
              /\ name \in DOMAIN robots'
              /\ robots'[name]._chain_len = robots[name]._chain_len
              /\ robots'[name]._keypad._map = robots[name]._keypad._map
              /\ robots'[name]._keypad._pos_map = robots[name]._keypad._pos_map
              /\ robots'[name]._dir_keypad._map = robots[name]._dir_keypad._map
              /\ robots'[name]._dir_keypad._pos_map = robots[name]._dir_keypad._pos_map
              /\ robots'[name] =
                     [robots[name] EXCEPT !._cost_cache = robots'[name]._cost_cache]
        /\ calls' = calls => code' = code
        /\ frames' # <<>> => frames'[1].code = code'
        /\ \A k \in DOMAIN frames \cap DOMAIN frames' :
              frames'[k].code = frames[k].code
      ]_vars

\* The second call on a chain of length 3 has returned; the two calls
\* filled the cost cache, and nothing else of the instance has changed
\* since it was made.
C29_Witness ==
    /\ Returned /\ calls = 2 /\ IsNumpad(Chain._keypad)
    /\ Chain = [RobotChain(new_numpad, 3) EXCEPT !._cost_cache = Chain._cost_cache]
    /\ Cardinality(DOMAIN Chain._cost_cache) > 30
    /\ DOMAIN answers = {<<"chain", <<"5", "9", "3">>>>, <<"chain", Code029A>>}

----------------------------------------------------------------------------
(* The keys of the cost cache.                                             *)

\* Every path get_min_paths returns for two buttons of a layout.
MinPathsOn(kp) ==
    UNION {Range(get_min_paths(kp, a, b).paths) : a, b \in Buttons(kp)}

NumpadPaths == MinPathsOn(new_numpad)
DirpadPaths == MinPathsOn(new_dirpad)

\* C30: for an instance made with the numeric layout and chain length n,
\* every key (sequence, chain_len, layout) of its cost cache has
\* 1 <= chain_len <= n (nothing is stored for chain_len 0, and nothing at
\* all with n = 0); the layout is the numeric one exactly when
\* chain_len = n and the directional one exactly when chain_len < n; and
\* the sequence of a key with the directional layout is a path that
\* get_min_paths returns: on the numeric layout for chain_len = n - 1, on
\* the directional layout below.
C30_CostCacheKeys ==
    \A name \in DOMAIN robots :
        LET self == robots[name]
            n    == self._chain_len
        IN  self._keypad._map = NumpadMap =>
                \A key \in DOMAIN self._cost_cache :
                    /\ 1 <= key[2] /\ key[2] <= n
                    /\ key[3] \in {NumpadMap, DirpadMap}
                    /\ key[3] = NumpadMap <=> key[2] = n
                    /\ key[3] = DirpadMap <=> key[2] < n
                    /\ key[3] = DirpadMap =>
                          /\ key[1] \in NumpadPaths \cup DirpadPaths
                          /\ key[2] = n - 1 => key[1] \in NumpadPaths
                          /\ key[2] < n - 1 => key[1] \in DirpadPaths

\* Two codes were priced on a chain of length 3 over the numeric pad: the
\* cost cache holds keys with the numeric layout at chain length 3 and
\* keys with the directional layout at chain lengths 2 and 1.
C30_Witness ==
    /\ Returned /\ calls = 2 /\ IsNumpad(Chain._keypad) /\ Chain._chain_len = 3
    /\ CacheKey(Code029A, 3, new_numpad) \in DOMAIN Chain._cost_cache
    /\ CacheKey(<<"7", "A">>, 3, new_numpad) \in DOMAIN Chain._cost_cache
    /\ CacheKey(<<"^", "<", "<", "^", "^", "A">>, 2, new_dirpad) \in DOMAIN Chain._cost_cache
    /\ CacheKey(<<"v", "<", "<", "A">>, 1, new_dirpad) \in DOMAIN Chain._cost_cache

====
